---- MODULE Spec2Model ----
(***************************************************************************)
(* The incremental synchronisation and caching engine of the Slack data    *)
(* extractor: SlackCacheManager (src/cache_manager.py),                    *)
(* SlackDataExtractor.extract_channel_messages and the run loop of main    *)
(* (src/getchannels.py).                                                   *)
(*                                                                         *)
(* Timestamps are the decimal strings Slack hands out ("ts").  They are    *)
(* modelled as the natural number whose decimal digits are the string, and *)
(* every comparison the code makes on them is the comparison of those      *)
(* digit strings (StrGreater), as Python's str > str is.  The Python value *)
(* None of a timestamp field is NoTs.                                      *)
(***************************************************************************)
EXTENDS Integers, Sequences, FiniteSets, TLC

VARIABLES
    channels,   \* cache_data["channels"]: channel_id -> [name, last_fetch, last_message_ts]
    messages,   \* cache_data["messages"]: the flat list of cached message dicts
    now,        \* the wall clock read by datetime.now()
    last,       \* the last operation: its inputs, what it fetched and what it returned
    run,        \* main(): the locals of the run loop and where the run stands
    disk,       \* the cache file: whether it is there, what reading it gives, its text
    info        \* cache_data["last_update"] and cache_data["metadata"]

vars == <<channels, messages, now, last, run, disk, info>>

----------------------------------------------------------------------------
(* Bounds of the model *)

TsBase == 10
MaxTs == 2
HistoryLimit == 2
RepliesPage == 2
MaxReplyCount == 1
MaxNow == 3
TickMinutes == 10
SampleRetryAfter == 30
MaxKills == 1
OpsNow == 1762000000
EarlyTs == 999999999
RecentAge == 3600
OldAgeDays == 100
LargeDays == 10000
HugeDays == 24000
MaxExportList == 2
MaxMerges == 2

----------------------------------------------------------------------------
(* Values *)

NoTs == 0
NoSubtype == "none"
ChannelIds == {"CA", "CB"}
Timestamps == (TsBase + 1)..(TsBase + MaxTs)
Subtypes == {NoSubtype, "channel_join", "thread_broadcast"}
SkippedSubtypes == {"channel_join", "channel_leave", "channel_archive"}

ChannelName(c) == IF c = "CA" THEN "general" ELSE "random"

(* Sequence helpers *)
Range(s) == {s[i] : i \in 1..Len(s)}

----------------------------------------------------------------------------
(* Python's comparison of two timestamp strings *)

RECURSIVE Digits(_)
Digits(n) == IF n < 10 THEN <<n>> ELSE Digits(n \div 10) \o <<n % 10>>

RECURSIVE LexGreater(_, _)
LexGreater(a, b) ==
    IF a = <<>> THEN FALSE
    ELSE IF b = <<>> THEN TRUE
    ELSE IF Head(a) # Head(b) THEN Head(a) > Head(b)
    ELSE LexGreater(Tail(a), Tail(b))

StrGreater(a, b) == LexGreater(Digits(a), Digits(b))

----------------------------------------------------------------------------
(* The remote collaborator.  A channel holds at most one record per ts: a   *)
(* plain message, a membership notice, a thread parent (thread_ts is its   *)
(* own ts and reply_count > 0) or a reply (thread_ts is the parent's ts),  *)
(* which is also sent to the channel when its subtype is thread_broadcast. *)

RemoteRecords ==
    {r \in [ts : Timestamps, thread_ts : {NoTs} \cup Timestamps,
            reply_count : 0..MaxReplyCount, subtype : Subtypes, text : {"hello"}] :
        /\ r.thread_ts <= r.ts
        /\ (r.thread_ts = r.ts) = (r.reply_count > 0)
        /\ r.subtype = "channel_join" => r.reply_count = 0
        /\ r.subtype = "thread_broadcast" => (r.thread_ts # NoTs /\ r.thread_ts # r.ts)}

(* What a channel can hold when it is read: replies belong to a parent     *)
(* that is there.                                                          *)
Snapshots ==
    {S \in UNION {{{f[t] : t \in T} : f \in {g \in [T -> RemoteRecords] :
                                                \A t \in T : g[t].ts = t}} :
                  T \in SUBSET Timestamps} :
        \A r \in S : (r.thread_ts # NoTs /\ r.thread_ts # r.ts)
                        => \E q \in S : q.ts = r.thread_ts /\ q.thread_ts = q.ts}

RECURSIVE NewestFirst(_)
NewestFirst(S) ==
    IF S = {} THEN <<>>
    ELSE LET m == CHOOSE r \in S : \A q \in S : r.ts >= q.ts
         IN <<m>> \o NewestFirst(S \ {m})

RECURSIVE OldestFirst(_)
OldestFirst(S) ==
    IF S = {} THEN <<>>
    ELSE LET m == CHOOSE r \in S : \A q \in S : r.ts <= q.ts
         IN <<m>> \o OldestFirst(S \ {m})

FirstN(s, n) == SubSeq(s, 1, IF Len(s) < n THEN Len(s) ELSE n)

(* conversations.history(channel, limit, oldest): the newest limit records *)
(* of the channel itself that are later than oldest, newest first.         *)
ConversationsHistory(S, limit, oldest) ==
    FirstN(NewestFirst({r \in S :
        /\ r.thread_ts \in {NoTs, r.ts} \/ r.subtype = "thread_broadcast"
        /\ oldest = NoTs \/ r.ts > oldest}), limit)

(* conversations.replies(channel, ts): the first page of the thread, the   *)
(* parent and then its replies, oldest first.                              *)
ConversationsReplies(S, thread_ts) ==
    FirstN(OldestFirst({r \in S : r.ts = thread_ts \/ r.thread_ts = thread_ts}),
           RepliesPage)

----------------------------------------------------------------------------
(* MessageNormalizer: _parse_message *)

(* A variant that looks at thread_ts alone *)
IsThreadParent_NoReplyCount(msg_data) ==
    msg_data.thread_ts # NoTs /\ msg_data.thread_ts = msg_data.ts

IsThreadParent(msg_data) ==
    \/ (msg_data.thread_ts # NoTs /\ msg_data.thread_ts = msg_data.ts)
    \/ msg_data.reply_count > 0

(* A variant that skips no record *)
ParseMessage_KeepAll(msg_data, channel_id) ==
    <<[id |-> msg_data.ts,
       channel_id |-> channel_id,
       channel_name |-> ChannelName(channel_id),
       timestamp |-> msg_data.ts,
       text |-> msg_data.text,
       subtype |-> msg_data.subtype,
       thread_ts |-> msg_data.thread_ts,
       is_thread_parent |-> IsThreadParent(msg_data),
       reply_count |-> msg_data.reply_count]>>

(* <<>> for a skipped record (the code's None), else the one Message. *)
ParseMessage(msg_data, channel_id) ==
    IF msg_data.subtype \in SkippedSubtypes THEN <<>>
    ELSE <<[id |-> msg_data.ts,
            channel_id |-> channel_id,
            channel_name |-> ChannelName(channel_id),
            timestamp |-> msg_data.ts,
            text |-> msg_data.text,
            subtype |-> msg_data.subtype,
            thread_ts |-> msg_data.thread_ts,
            is_thread_parent |-> IsThreadParent(msg_data),
            reply_count |-> msg_data.reply_count]>>

RECURSIVE ParseAll(_, _)
ParseAll(records, channel_id) ==
    IF records = <<>> THEN <<>>
    ELSE ParseMessage(Head(records), channel_id) \o ParseAll(Tail(records), channel_id)

----------------------------------------------------------------------------
(* CacheStore: SlackCacheManager *)

GetChannelLastFetch(channel_id) ==
    IF channel_id \in DOMAIN channels THEN channels[channel_id].last_fetch ELSE NoTs

GetChannelLastMessageTs(channel_id) ==
    IF channel_id \in DOMAIN channels THEN channels[channel_id].last_message_ts ELSE NoTs

(* A variant that leaves last_fetch of a known channel as it was *)
UpdateChannelInfo_StaleFetch(chs, channel_id, channel_name, last_message_ts, t) ==
    IF channel_id \notin DOMAIN chs
    THEN [c \in DOMAIN chs \cup {channel_id} |->
            IF c = channel_id
            THEN [name |-> channel_name, last_fetch |-> t,
                  last_message_ts |-> last_message_ts]
            ELSE chs[c]]
    ELSE [chs EXCEPT ![channel_id] =
            [@ EXCEPT !.last_message_ts =
                          IF last_message_ts # NoTs THEN last_message_ts ELSE @]]

(* A variant that stores the supplied last_message_ts even when it is None *)
UpdateChannelInfo_Overwrite(chs, channel_id, channel_name, last_message_ts, t) ==
    [c \in DOMAIN chs \cup {channel_id} |->
        IF c = channel_id
        THEN [name |-> IF c \in DOMAIN chs THEN chs[c].name ELSE channel_name,
              last_fetch |-> t, last_message_ts |-> last_message_ts]
        ELSE chs[c]]

UpdateChannelInfo(chs, channel_id, channel_name, last_message_ts, t) ==
    IF channel_id \notin DOMAIN chs
    THEN [c \in DOMAIN chs \cup {channel_id} |->
            IF c = channel_id
            THEN [name |-> channel_name, last_fetch |-> t,
                  last_message_ts |-> last_message_ts]
            ELSE chs[c]]
    ELSE [chs EXCEPT ![channel_id] =
            [@ EXCEPT !.last_fetch = t,
                      !.last_message_ts =
                          IF last_message_ts # NoTs THEN last_message_ts ELSE @]]

AddMessages(msgs, new) == msgs \o new

GetCachedMessages(msgs, channel_id) ==
    SelectSeq(msgs, LAMBDA m : m.channel_id = channel_id)

MergeWithExistingMessages_NoDedup(msgs, new_messages) == AddMessages(msgs, new_messages)

MergeWithExistingMessages(msgs, new_messages) ==
    LET existing_ids == {m.id : m \in Range(msgs)}
        unique_new_messages == SelectSeq(new_messages, LAMBDA m : m.id \notin existing_ids)
    IN IF unique_new_messages # <<>> THEN AddMessages(msgs, unique_new_messages) ELSE msgs

----------------------------------------------------------------------------
(* SyncController: SlackDataExtractor *)

(* A cached dict read back into a Message, field by field. *)
ToMessage(msg_data) ==
    [id |-> msg_data.id,
     channel_id |-> msg_data.channel_id,
     channel_name |-> msg_data.channel_name,
     timestamp |-> msg_data.timestamp,
     text |-> msg_data.text,
     subtype |-> msg_data.subtype,
     thread_ts |-> msg_data.thread_ts,
     is_thread_parent |-> msg_data.is_thread_parent,
     reply_count |-> msg_data.reply_count]

GetCachedChannelMessages(channel_id) ==
    LET cached_data == GetCachedMessages(messages, channel_id)
    IN [i \in 1..Len(cached_data) |-> ToMessage(cached_data[i])]

(* A variant that keeps the parent's own record among the replies *)
ExtractThreadReplies_KeepParent(channel_id, thread_ts, response) ==
    IF ~response.ok THEN <<>> ELSE ParseAll(response.messages, channel_id)

ExtractThreadReplies(channel_id, thread_ts, response) ==
    IF ~response.ok THEN <<>>
    ELSE ParseAll(SelectSeq(response.messages, LAMBDA d : d.ts # thread_ts), channel_id)

(* cached_messages of extract_channel_messages *)
CachedForSync(channel_id, force_refresh) ==
    IF ~force_refresh THEN GetCachedChannelMessages(channel_id) ELSE <<>>

(* A variant that never passes a lower bound *)
OldestParam_NeverIncremental(channel_id, force_refresh, cached_messages) == NoTs

(* A variant that passes the watermark whatever is cached *)
OldestParam_IgnoreCache(channel_id, force_refresh, cached_messages) ==
    IF ~force_refresh THEN GetChannelLastMessageTs(channel_id) ELSE NoTs

(* oldest_param["oldest"], NoTs when oldest_param stays empty *)
OldestParam(channel_id, force_refresh, cached_messages) ==
    IF ~force_refresh /\ cached_messages # <<>>
    THEN GetChannelLastMessageTs(channel_id)
    ELSE NoTs

(* "Track latest timestamp" *)
TrackLatest(latest_ts, timestamp) ==
    IF latest_ts = NoTs \/ StrGreater(timestamp, latest_ts) THEN timestamp ELSE latest_ts

(* The loop over response["messages"]: replies[ts] is what                 *)
(* conversations.replies answers for the thread rooted at ts.              *)
RECURSIVE ProcessHistory(_, _, _, _)
ProcessHistory(page, channel_id, replies, acc) ==
    IF page = <<>> THEN acc
    ELSE LET parsed == ParseMessage(Head(page), channel_id)
         IN IF parsed = <<>>
            THEN ProcessHistory(Tail(page), channel_id, replies,
                                [acc EXCEPT !.skipped_in_history = TRUE])
            ELSE LET message == parsed[1]
                     thread_messages ==
                         IF message.is_thread_parent
                         THEN ExtractThreadReplies(channel_id, message.timestamp,
                                                   replies[message.timestamp])
                         ELSE <<>>
                 IN ProcessHistory(Tail(page), channel_id, replies,
                        [new_messages |-> acc.new_messages \o <<message>> \o thread_messages,
                         latest_ts |-> TrackLatest(acc.latest_ts, message.timestamp),
                         thread_parents_found |-> acc.thread_parents_found +
                             (IF message.is_thread_parent THEN 1 ELSE 0),
                         skipped_in_history |-> acc.skipped_in_history,
                         skipped_in_replies |-> acc.skipped_in_replies \/
                             (/\ message.is_thread_parent
                              /\ replies[message.timestamp].ok
                              /\ \E d \in Range(replies[message.timestamp].messages) :
                                    /\ d.ts # message.timestamp
                                    /\ ParseMessage(d, channel_id) = <<>>),
                         fetched |-> acc.fetched \o <<message>>,
                         replies_calls |-> acc.replies_calls \o
                             (IF message.is_thread_parent
                              THEN <<[thread_ts |-> message.timestamp,
                                      replies |-> thread_messages]>>
                              ELSE <<>>),
                         replies_failed |-> acc.replies_failed \/
                             (message.is_thread_parent /\ ~replies[message.timestamp].ok)])

(* The timestamps of the page's records that are fetched as thread parents *)
ParentTs(page, channel_id) ==
    {page[i].ts : i \in {j \in 1..Len(page) :
        /\ ParseMessage(page[j], channel_id) # <<>>
        /\ IsThreadParent(page[j])}}

(* What conversations.replies answers for each parent of the page: the     *)
(* thread's first page, or SlackApiError for the threads in failing.       *)
RepliesAnswers(S, failing) ==
    [thread_ts \in Timestamps |->
        IF thread_ts \in failing THEN [ok |-> FALSE, messages |-> <<>>]
        ELSE [ok |-> TRUE, messages |-> ConversationsReplies(S, thread_ts)]]

(* A variant that empties the whole list *)
DropChannel_All(msgs, channel_id) == <<>>

DropChannel(msgs, channel_id) ==
    SelectSeq(msgs, LAMBDA m : m.channel_id # channel_id)

(* The history call succeeded: lines 180-235 *)
SyncFetched(channel_id, force_refresh) ==
    /\ now < MaxNow
    /\ LET cached_messages == CachedForSync(channel_id, force_refresh)
           oldest == OldestParam(channel_id, force_refresh, cached_messages)
           channel_name == ChannelName(channel_id)
       IN \E S \in Snapshots :
          \E failing \in SUBSET ParentTs(ConversationsHistory(S, HistoryLimit, oldest),
                                         channel_id) :
            LET response == [ok |-> TRUE,
                             messages |-> ConversationsHistory(S, HistoryLimit, oldest)]
                replies == RepliesAnswers(S, failing)
                got == ProcessHistory(response.messages, channel_id, replies,
                          [new_messages |-> <<>>, latest_ts |-> NoTs,
                           thread_parents_found |-> 0, replies_failed |-> FALSE,
                           skipped_in_history |-> FALSE, skipped_in_replies |-> FALSE,
                           fetched |-> <<>>, replies_calls |-> <<>>])
                new_messages == got.new_messages
                latest_ts == got.latest_ts
                branch == IF oldest # NoTs /\ new_messages # <<>> THEN "append"
                          ELSE IF oldest # NoTs THEN "retain"
                          ELSE "replace"
            IN /\ now' = now + 1
               /\ messages' =
                    CASE branch = "append" ->
                            MergeWithExistingMessages(messages, new_messages)
                      [] branch = "retain" -> messages
                      [] branch = "replace" ->
                            AddMessages(DropChannel(messages, channel_id), new_messages)
               /\ channels' =
                    CASE branch = "append" ->
                            UpdateChannelInfo(channels, channel_id, channel_name,
                                              latest_ts, now')
                      [] branch = "retain" ->
                            UpdateChannelInfo(channels, channel_id, channel_name,
                                              GetChannelLastMessageTs(channel_id), now')
                      [] branch = "replace" ->
                            UpdateChannelInfo(channels, channel_id, channel_name,
                                              latest_ts, now')
               /\ last' = [op |-> "sync", channel |-> channel_id, force |-> force_refresh,
                           oldest |-> oldest, ok |-> TRUE, branch |-> branch,
                           replies_failed |-> got.replies_failed,
                           thread_parents_found |-> got.thread_parents_found,
                           skipped_in_history |-> got.skipped_in_history,
                           skipped_in_replies |-> got.skipped_in_replies,
                           fetched |-> got.fetched, replies_calls |-> got.replies_calls,
                           new_messages |-> new_messages, latest_ts |-> latest_ts,
                           ret |-> CASE branch = "append" -> cached_messages \o new_messages
                                     [] branch = "retain" -> cached_messages
                                     [] branch = "replace" -> new_messages]

(* The history call raised SlackApiError: lines 237-244 *)
SyncApiError(channel_id, force_refresh) ==
    /\ now < MaxNow
    /\ LET cached_messages == CachedForSync(channel_id, force_refresh)
           oldest == OldestParam(channel_id, force_refresh, cached_messages)
       IN /\ now' = now + 1
          /\ UNCHANGED <<channels, messages>>
          /\ last' = [op |-> "sync", channel |-> channel_id, force |-> force_refresh,
                      oldest |-> oldest, ok |-> FALSE, branch |-> "error",
                      replies_failed |-> FALSE, thread_parents_found |-> 0,
                      skipped_in_history |-> FALSE, skipped_in_replies |-> FALSE,
                      fetched |-> <<>>, replies_calls |-> <<>>,
                      new_messages |-> <<>>, latest_ts |-> NoTs,
                      ret |-> IF cached_messages # <<>> THEN cached_messages ELSE <<>>]

(* The history call raised something that is not a SlackApiError (the      *)
(* connection failed): no handler of extract_channel_messages catches it,  *)
(* it reaches the caller and nothing is returned.                          *)
SyncRaised(channel_id, force_refresh) ==
    /\ now < MaxNow
    /\ LET cached_messages == CachedForSync(channel_id, force_refresh)
           oldest == OldestParam(channel_id, force_refresh, cached_messages)
       IN /\ now' = now + 1
          /\ UNCHANGED <<channels, messages>>
          /\ last' = [op |-> "sync", channel |-> channel_id, force |-> force_refresh,
                      oldest |-> oldest, ok |-> FALSE, branch |-> "raised",
                      replies_failed |-> FALSE, thread_parents_found |-> 0,
                      skipped_in_history |-> FALSE, skipped_in_replies |-> FALSE,
                      fetched |-> <<>>, replies_calls |-> <<>>,
                      new_messages |-> <<>>, latest_ts |-> NoTs, ret |-> <<>>]

----------------------------------------------------------------------------
(* Persistence: save_cache and load_cache.  The text of the file is the    *)
(* sequence of chunks json.dump writes one after the other: the opening    *)
(* brace, one chunk per key of cache_data, the closing brace.  A value     *)
(* that may be None is written as null, and null is read back as None.     *)

JsonOfOpt(x, none) ==
    IF x = none THEN [j |-> "null", v |-> none] ELSE [j |-> "value", v |-> x]

OptOfJson(jv, none) == IF jv.j = "null" THEN none ELSE jv.v

(* An entry of "messages" that is not a dict: the file had null there *)
NonDict ==
    [id |-> NoTs, channel_id |-> "?", channel_name |-> "?", timestamp |-> NoTs,
     text |-> "?", subtype |-> NoSubtype, thread_ts |-> NoTs,
     is_thread_parent |-> FALSE, reply_count |-> 0]

IsDict(m) == m # NonDict

JsonOfMessage(m) ==
    IF ~IsDict(m) THEN [j |-> "null"]
    ELSE [j |-> "object",
          id |-> m.id, channel_id |-> m.channel_id, channel_name |-> m.channel_name,
          timestamp |-> m.timestamp, text |-> m.text,
          subtype |-> JsonOfOpt(m.subtype, NoSubtype),
          thread_ts |-> JsonOfOpt(m.thread_ts, NoTs),
          is_thread_parent |-> m.is_thread_parent, reply_count |-> m.reply_count]

MessageOfJson(jm) ==
    IF jm.j # "object" THEN NonDict
    ELSE [id |-> jm.id, channel_id |-> jm.channel_id, channel_name |-> jm.channel_name,
          timestamp |-> jm.timestamp, text |-> jm.text,
          subtype |-> OptOfJson(jm.subtype, NoSubtype),
          thread_ts |-> OptOfJson(jm.thread_ts, NoTs),
          is_thread_parent |-> jm.is_thread_parent, reply_count |-> jm.reply_count]

JsonOfChannel(ch) ==
    [name |-> ch.name, last_fetch |-> ch.last_fetch,
     last_message_ts |-> JsonOfOpt(ch.last_message_ts, NoTs)]

ChannelOfJson(jc) ==
    [name |-> jc.name, last_fetch |-> jc.last_fetch,
     last_message_ts |-> OptOfJson(jc.last_message_ts, NoTs)]

(* A variant that does not write the metadata *)
DumpStore_NoMetadata(chs, msgs, inf) ==
    << [key |-> "{", value |-> [j |-> "brace"]],
       [key |-> "last_update", value |-> JsonOfOpt(inf.last_update, NoTs)],
       [key |-> "channels",
        value |-> [j |-> "object",
                   v |-> [c \in DOMAIN chs |-> JsonOfChannel(chs[c])]]],
       [key |-> "messages",
        value |-> [j |-> "array",
                   v |-> [k \in 1..Len(msgs) |-> JsonOfMessage(msgs[k])]]],
       [key |-> "}", value |-> [j |-> "brace"]] >>

(* json.dump(self.cache_data, f): the chunks in the order of the keys *)
DumpStore(chs, msgs, inf) ==
    << [key |-> "{", value |-> [j |-> "brace"]],
       [key |-> "last_update", value |-> JsonOfOpt(inf.last_update, NoTs)],
       [key |-> "channels",
        value |-> [j |-> "object",
                   v |-> [c \in DOMAIN chs |-> JsonOfChannel(chs[c])]]],
       [key |-> "messages",
        value |-> [j |-> "array",
                   v |-> [k \in 1..Len(msgs) |-> JsonOfMessage(msgs[k])]]],
       [key |-> "metadata",
        value |-> [j |-> "object", v |-> [version |-> inf.version,
                                          created |-> inf.created]]],
       [key |-> "}", value |-> [j |-> "brace"]] >>

(* The cache_data of __init__ *)
Skeleton(t) ==
    [channels |-> <<>>, messages |-> <<>>,
     info |-> [last_update |-> NoTs, version |-> "1.0", created |-> t]]

NoFile == [exists |-> FALSE, fault |-> "none", text |-> <<>>]

(* What json.load makes of the text *)
IsJsonObject(text) ==
    /\ Len(text) >= 2
    /\ text[1].key = "{"
    /\ text[Len(text)].key = "}"

IsJsonArray(text) ==
    /\ Len(text) >= 2
    /\ text[1].key = "["
    /\ text[Len(text)].key = "]"

HasKey(text, key) == \E k \in 1..Len(text) : text[k].key = key

ValueOf(text, key) == text[CHOOSE k \in 1..Len(text) : text[k].key = key].value

(* load_cache as __init__ calls it at time t: the store it leaves, and     *)
(* whether an exception left the constructor.                              *)
LoadCache(d, t) ==
    IF ~d.exists
    THEN [raised |-> FALSE, loaded |-> FALSE, store |-> Skeleton(t)]
    ELSE IF d.fault = "unreadable"
    THEN [raised |-> FALSE, loaded |-> FALSE, store |-> Skeleton(t)]
    ELSE IF d.fault = "undecodable"
    THEN [raised |-> TRUE, loaded |-> FALSE, store |-> Skeleton(t)]
    ELSE IF IsJsonArray(d.text)
    THEN [raised |-> TRUE, loaded |-> FALSE, store |-> Skeleton(t)]
    ELSE IF ~IsJsonObject(d.text)
    THEN [raised |-> FALSE, loaded |-> FALSE, store |-> Skeleton(t)]
    ELSE LET sized(key) == ~HasKey(d.text, key) \/ ValueOf(d.text, key).j # "null"
             chs == IF HasKey(d.text, "channels") /\ sized("channels")
                    THEN LET jv == ValueOf(d.text, "channels").v
                         IN [c \in DOMAIN jv |-> ChannelOfJson(jv[c])]
                    ELSE <<>>
             msgs == IF HasKey(d.text, "messages") /\ sized("messages")
                     THEN LET jv == ValueOf(d.text, "messages").v
                          IN [k \in 1..Len(jv) |-> MessageOfJson(jv[k])]
                     ELSE <<>>
             inf == [last_update |->
                        IF HasKey(d.text, "last_update")
                        THEN OptOfJson(ValueOf(d.text, "last_update"), NoTs)
                        ELSE NoTs,
                     version |->
                        IF HasKey(d.text, "metadata")
                        THEN ValueOf(d.text, "metadata").v.version ELSE "1.0",
                     created |->
                        IF HasKey(d.text, "metadata")
                        THEN ValueOf(d.text, "metadata").v.created ELSE t]
         IN [raised |-> ~(sized("channels") /\ sized("messages")),
             loaded |-> TRUE,
             store |-> [channels |-> chs, messages |-> msgs, info |-> inf]]

----------------------------------------------------------------------------
(* The run: main().  Time is counted in ticks of TickMinutes minutes, a    *)
(* sync ends one tick after it began and the pauses of the run loop, which *)
(* are seconds long, do not reach the next tick.                           *)

base_delay == 10
max_delay == 120
max_retries == 2
InterChannelMinDelay == 15
RecentMinutes == 10

(* The retry-after header of a rate-limit answer: absent, not a number, or *)
(* a number of seconds.                                                    *)
NoRetryAfter == -1
BadRetryAfter == -2
RetryAfters == {NoRetryAfter, BadRetryAfter, SampleRetryAfter}

Max(a, b) == IF a >= b THEN a ELSE b
Min(a, b) == IF a <= b THEN a ELSE b

(* channels_to_process: the channels of the workspace the bot is in *)
ChannelLists == {<<"CA">>, <<"CB">>, <<"CA", "CB">>, <<"CB", "CA">>}

(* A variant that never takes the cache for recent *)
IsRecent_Never(channel_id) == FALSE

(* "Check if channel was recently fetched (within last 10 minutes)" *)
IsRecent(channel_id) ==
    /\ GetChannelLastFetch(channel_id) # NoTs
    /\ (now - GetChannelLastFetch(channel_id)) * TickMinutes < RecentMinutes

(* The handler of a rate-limit SlackApiError in the run loop.  No run      *)
(* enters it for a history call: extract_channel_messages catches every    *)
(* SlackApiError itself, so none reaches the loop.                         *)
SuggestedRetryAfter(retry_after, current_delay) ==
    IF retry_after \in {NoRetryAfter, BadRetryAfter} THEN current_delay ELSE retry_after

WaitTime(retry_after, current_delay) ==
    Max(SuggestedRetryAfter(retry_after, current_delay) * 2, current_delay * 2)

NextDelay(current_delay) == Min(current_delay * 2, max_delay)

(* A variant of the loop condition that never ends the loop *)
LoopAgain_Always(retry_count, success) == TRUE

(* "while retry_count <= max_retries and not success" *)
LoopAgain(retry_count, success) == retry_count <= max_retries /\ ~success

RunIdle ==
    [pc |-> "idle", cache_only |-> FALSE, channels_to_process |-> <<>>, i |-> 0,
     retry_count |-> 0, success |-> FALSE, current_delay |-> base_delay,
     all_messages |-> <<>>, signal |-> "none", retry_after |-> NoRetryAfter,
     delay_in |-> base_delay, attempts |-> 0, history_calls |-> 0,
     waited |-> <<>>, paused |-> 0, handled |-> <<>>, limited_at |-> 0,
     killed_in |-> "none", kills |-> 0]

CurrentChannel == run.channels_to_process[run.i]

Attempting == run.pc = "attempt"

(* No process is running *)
Stopped == run.pc \in {"idle", "done", "crashed", "killed"}

(* A new process builds its SlackCacheManager, which loads the file *)
Construct(loaded) ==
    /\ channels' = loaded.store.channels
    /\ messages' = loaded.store.messages
    /\ info' = loaded.store.info

(* A run starts in regular mode: the cache file is loaded, the channel     *)
(* list is fetched and the loop begins with its first channel.             *)
StartRun(list) ==
    /\ Stopped
    /\ Construct(LoadCache(disk, now))
    /\ run' = IF LoadCache(disk, now).raised
              THEN [RunIdle EXCEPT !.pc = "crashed", !.kills = run.kills]
              ELSE [RunIdle EXCEPT !.pc = "attempt", !.channels_to_process = list,
                                   !.i = 1, !.kills = run.kills]
    /\ UNCHANGED <<now, last, disk>>

(* A run starts with CACHE_ONLY=true: all_messages is filled from the      *)
(* cache, then emptied again, and "for channel in channels" reads a local  *)
(* that only the regular branch assigns: the run ends with                 *)
(* UnboundLocalError and writes nothing.                                   *)
StartRunCacheOnly ==
    /\ Stopped
    /\ Construct(LoadCache(disk, now))
    /\ run' = [RunIdle EXCEPT !.pc = "crashed", !.cache_only = TRUE,
                              !.kills = run.kills]
    /\ UNCHANGED <<now, last, disk>>

(* One pass of the while loop, the channel was fetched less than ten       *)
(* minutes ago: its cached messages are taken, no remote call.             *)
AttemptRecentCache ==
    /\ Attempting
    /\ IsRecent(CurrentChannel)
    /\ run' = [run EXCEPT
            !.all_messages = @ \o GetCachedChannelMessages(CurrentChannel),
            !.success = TRUE,
            !.signal = "recent",
            !.delay_in = run.current_delay,
            !.handled = @ \o <<[channel |-> CurrentChannel, source |-> "recent",
                                messages |-> GetCachedChannelMessages(CurrentChannel)]>>,
            !.pc = IF LoopAgain(run.retry_count, TRUE) THEN "attempt" ELSE "finish"]
    /\ UNCHANGED <<channels, messages, now, last, disk, info>>

(* A variant that drops what extract_channel_messages returned *)
Returned_Dropped(signal, retry_after) ==
    run' = [run EXCEPT
            !.success = TRUE,
            !.current_delay = base_delay,
            !.signal = signal,
            !.retry_after = retry_after,
            !.delay_in = run.current_delay,
            !.attempts = @ + 1,
            !.history_calls = @ + 1,
            !.limited_at = IF signal = "ratelimited" /\ @ = 0 THEN run.i ELSE @,
            !.handled = @ \o <<[channel |-> CurrentChannel, source |-> "returned",
                                messages |-> last'.ret]>>,
            !.pc = IF LoopAgain(run.retry_count, TRUE) THEN "attempt" ELSE "finish"]

(* A variant that backs off when extract_channel_messages returns *)
Returned_BackOff(signal, retry_after) ==
    run' = [run EXCEPT
            !.all_messages = @ \o last'.ret,
            !.success = TRUE,
            !.current_delay = NextDelay(run.current_delay),
            !.signal = signal,
            !.retry_after = retry_after,
            !.delay_in = run.current_delay,
            !.attempts = @ + 1,
            !.history_calls = @ + 1,
            !.limited_at = IF signal = "ratelimited" /\ @ = 0 THEN run.i ELSE @,
            !.handled = @ \o <<[channel |-> CurrentChannel, source |-> "returned",
                                messages |-> last'.ret]>>,
            !.pc = IF LoopAgain(run.retry_count, TRUE) THEN "attempt" ELSE "finish"]

(* What the loop does when extract_channel_messages returns *)
Returned(signal, retry_after) ==
    run' = [run EXCEPT
            !.all_messages = @ \o last'.ret,
            !.success = TRUE,
            !.current_delay = base_delay,
            !.signal = signal,
            !.retry_after = retry_after,
            !.delay_in = run.current_delay,
            !.attempts = @ + 1,
            !.history_calls = @ + 1,
            !.limited_at = IF signal = "ratelimited" /\ @ = 0 THEN run.i ELSE @,
            !.handled = @ \o <<[channel |-> CurrentChannel, source |-> "returned",
                                messages |-> last'.ret]>>,
            !.pc = IF LoopAgain(run.retry_count, TRUE) THEN "attempt" ELSE "finish"]

(* One pass of the while loop, the history call succeeded *)
AttemptFetched ==
    /\ Attempting
    /\ ~IsRecent(CurrentChannel)
    /\ SyncFetched(CurrentChannel, FALSE)
    /\ Returned("fetched", NoRetryAfter)
    /\ UNCHANGED <<disk, info>>

(* One pass of the while loop, the remote answered the history call with   *)
(* a rate-limit error: extract_channel_messages catches it and returns.    *)
AttemptRateLimited(retry_after) ==
    /\ Attempting
    /\ ~IsRecent(CurrentChannel)
    /\ SyncApiError(CurrentChannel, FALSE)
    /\ Returned("ratelimited", retry_after)
    /\ UNCHANGED <<disk, info>>

(* One pass of the while loop, the remote answered the history call with   *)
(* another API error: extract_channel_messages catches it and returns.     *)
AttemptApiError ==
    /\ Attempting
    /\ ~IsRecent(CurrentChannel)
    /\ SyncApiError(CurrentChannel, FALSE)
    /\ Returned("api_error", NoRetryAfter)
    /\ UNCHANGED <<disk, info>>

(* One pass of the while loop, the history call raised something else:     *)
(* "except Exception" logs it and leaves the loop.                         *)
AttemptRaised ==
    /\ Attempting
    /\ ~IsRecent(CurrentChannel)
    /\ SyncRaised(CurrentChannel, FALSE)
    /\ run' = [run EXCEPT
            !.signal = "raised",
            !.delay_in = run.current_delay,
            !.attempts = @ + 1,
            !.history_calls = @ + 1,
            !.pc = "finish"]
    /\ UNCHANGED <<disk, info>>

(* A variant that pauses for the current delay alone *)
ChannelPause_NoFloor(i, n, current_delay) ==
    IF i < n THEN current_delay ELSE 0

(* "Ultra-conservative delay between channels", 0 when there is none *)
ChannelPause(i, n, current_delay) ==
    IF i < n THEN Max(current_delay, InterChannelMinDelay) ELSE 0

(* A variant that adds nothing for a channel that did not succeed *)
FallbackMessages_Nothing(success, channel_id) == <<>>

(* "If we failed to get new data, use cache" *)
FallbackMessages(success, channel_id) ==
    IF ~success THEN GetCachedChannelMessages(channel_id) ELSE <<>>

(* After the while loop: the cached messages of a channel that did not     *)
(* succeed, the pause, and the next channel or the end of the loop.        *)
FinishChannel ==
    /\ run.pc = "finish"
    /\ LET n == Len(run.channels_to_process)
           fallback == FallbackMessages(run.success, CurrentChannel)
       IN run' = [run EXCEPT
            !.all_messages = @ \o fallback,
            !.handled = IF ~run.success
                        THEN @ \o <<[channel |-> CurrentChannel, source |-> "fallback",
                                     messages |-> fallback]>>
                        ELSE @,
            !.paused = ChannelPause(run.i, n, run.current_delay),
            !.i = @ + 1,
            !.retry_count = 0,
            !.success = FALSE,
            !.attempts = 0,
            !.waited = <<>>,
            !.signal = IF run.i < n THEN "none" ELSE @,
            !.pc = IF run.i < n THEN "attempt" ELSE "save"]
    /\ UNCHANGED <<channels, messages, now, last, disk, info>>

(* save_cache, up to open(self.cache_file, 'w'): last_update is set and    *)
(* the file is there and empty.                                            *)
SaveCacheOpen ==
    /\ run.pc = "save"
    /\ info' = [info EXCEPT !.last_update = now]
    /\ disk' = [exists |-> TRUE, fault |-> "none", text |-> <<>>]
    /\ run' = [run EXCEPT !.pc = "writing"]
    /\ UNCHANGED <<channels, messages, now, last>>

(* save_cache, json.dump: the whole text is written and the run goes on to *)
(* its end.                                                                *)
SaveCacheWrite ==
    /\ run.pc = "writing"
    /\ disk' = [disk EXCEPT !.text = DumpStore(channels, messages, info)]
    /\ run' = [run EXCEPT !.pc = "done"]
    /\ UNCHANGED <<channels, messages, now, last, info>>

(* The process is killed.  During json.dump the file keeps the chunks      *)
(* written so far.  channels, messages and info keep what the process held *)
(* until the next process loads the file.                                  *)
Kill ==
    /\ run.pc \in {"attempt", "finish", "save", "writing"}
    /\ run.kills < MaxKills
    /\ run' = [RunIdle EXCEPT !.pc = "killed", !.killed_in = run.pc,
                              !.channels_to_process = run.channels_to_process,
                              !.i = run.i, !.kills = run.kills + 1]
    /\ IF run.pc = "writing"
       THEN \E k \in 0..(Len(DumpStore(channels, messages, info)) - 1) :
                disk' = [disk EXCEPT
                            !.text = SubSeq(DumpStore(channels, messages, info), 1, k)]
       ELSE disk' = disk
    /\ UNCHANGED <<channels, messages, now, last, info>>

----------------------------------------------------------------------------
Init ==
    /\ channels = <<>>
    /\ messages = <<>>
    /\ now = 0
    /\ last = [op |-> "init", channel |-> "CA", force |-> FALSE, oldest |-> NoTs,
               ok |-> TRUE, branch |-> "none", replies_failed |-> FALSE,
               thread_parents_found |-> 0, fetched |-> <<>>, replies_calls |-> <<>>,
               skipped_in_history |-> FALSE, skipped_in_replies |-> FALSE,
               new_messages |-> <<>>, latest_ts |-> NoTs, ret |-> <<>>]
    /\ run = RunIdle
    /\ disk = NoFile
    /\ info = Skeleton(0).info

(* The syncs by themselves, forced or not *)
Next ==
    \/ \E c \in ChannelIds, f \in BOOLEAN :
            SyncFetched(c, f) /\ UNCHANGED <<run, disk, info>>
    \/ \E c \in ChannelIds, f \in BOOLEAN :
            SyncApiError(c, f) /\ UNCHANGED <<run, disk, info>>
    \/ \E c \in ChannelIds, f \in BOOLEAN :
            SyncRaised(c, f) /\ UNCHANGED <<run, disk, info>>

Spec == Init /\ [][Next]_vars

(* The runs of main, one after another on the same cache *)
NextRun ==
    \/ \E list \in ChannelLists : StartRun(list)
    \/ StartRunCacheOnly
    \/ AttemptRecentCache
    \/ AttemptFetched
    \/ \E retry_after \in RetryAfters : AttemptRateLimited(retry_after)
    \/ AttemptApiError
    \/ AttemptRaised
    \/ FinishChannel
    \/ SaveCacheOpen
    \/ SaveCacheWrite

SpecRun == Init /\ [][NextRun]_vars

(* The regular runs of main in a workspace that begins with one channel    *)
(* and gets a second one; one of the runs may be killed.                   *)
CrashLists == {<<"CA">>, <<"CA", "CB">>}

NextCrash ==
    \/ \E list \in CrashLists : StartRun(list)
    \/ AttemptRecentCache
    \/ AttemptFetched
    \/ \E retry_after \in RetryAfters : AttemptRateLimited(retry_after)
    \/ AttemptApiError
    \/ AttemptRaised
    \/ FinishChannel
    \/ SaveCacheOpen
    \/ SaveCacheWrite
    \/ Kill

SpecCrash == Init /\ [][NextCrash]_vars

(* The runs that have the time to end: a run is started only when the      *)
(* clock leaves a tick for each of its channels, and a run that was        *)
(* started keeps taking steps (one sequential process; every remote call   *)
(* returns or raises).                                                     *)
StartRunInTime(list) ==
    /\ now + Len(list) <= MaxNow
    /\ StartRun(list)

RunStep ==
    \/ AttemptRecentCache
    \/ AttemptFetched
    \/ \E retry_after \in RetryAfters : AttemptRateLimited(retry_after)
    \/ AttemptApiError
    \/ AttemptRaised
    \/ FinishChannel
    \/ SaveCacheOpen
    \/ SaveCacheWrite

NextLive ==
    \/ \E list \in ChannelLists : StartRunInTime(list)
    \/ StartRunCacheOnly
    \/ RunStep

SpecLive == Init /\ [][NextLive]_vars /\ WF_vars(RunStep)

----------------------------------------------------------------------------
(* The operations of SlackCacheManager and of the normalizer by            *)
(* themselves, on the cache file a process finds.  Time and timestamps are *)
(* seconds since the epoch; the fraction of a second that the strings      *)
(* carry after the point is left out.                                      *)

DaySeconds == 86400
DefaultDays == 90

(* The first character of str() of a negative number, below every digit *)
MinusSign == -1

(* str(number) *)
StrOfNumber(n) == IF n < 0 THEN <<MinusSign>> \o Digits(0 - n) ELSE Digits(n)

(* remove_old_messages at time t: the messages it keeps *)
RemoveOldMessages(msgs, older_than_days, t) ==
    LET cutoff_timestamp == StrOfNumber(t - older_than_days * DaySeconds)
    IN SelectSeq(msgs, LAMBDA msg : LexGreater(Digits(msg.timestamp), cutoff_timestamp))

(* msg.get(...) on every entry of the list: AttributeError on a non-dict *)
GetRaises(msgs) == \E k \in 1..Len(msgs) : ~IsDict(msgs[k])

(* The raw records handed to _parse_message *)
RawRecords ==
    [ts : Timestamps, thread_ts : {NoTs} \cup Timestamps,
     reply_count : 0..MaxReplyCount, subtype : Subtypes, text : {"hello"}]

(* The files and the inputs of the operations *)
OpsMessage(ts, channel_id) ==
    ParseMessage([ts |-> ts, thread_ts |-> NoTs, reply_count |-> 0,
                  subtype |-> NoSubtype, text |-> "hello"], channel_id)[1]

OpsTimestamps == {OpsNow - RecentAge, OpsNow - OldAgeDays * DaySeconds, EarlyTs}

OpsEntries ==
    {OpsMessage(t, "CA") : t \in OpsTimestamps} \cup {NonDict}

OpsMessageLists ==
    {<<>>} \cup {<<a>> : a \in OpsEntries} \cup {<<a, b>> : a \in OpsEntries, b \in OpsEntries}

OpsChannels ==
    {<<>>,
     [c \in {"CA"} |-> [name |-> ChannelName(c), last_fetch |-> OpsNow - RecentAge,
                        last_message_ts |-> OpsNow - RecentAge]]}

OpsBatches ==
    {<<OpsMessage(OpsNow - RecentAge, "CA")>>,
     <<OpsMessage(EarlyTs, "CA"), OpsMessage(EarlyTs, "CA")>>,
     <<OpsMessage(OpsNow - RecentAge, "CA"), OpsMessage(EarlyTs, "CA")>>}

PruneDays == {0, DefaultDays, LargeDays, HugeDays}

Brace(b) == [key |-> b, value |-> [j |-> "brace"]]

OpsFiles ==
    {NoFile,
     [exists |-> TRUE, fault |-> "unreadable", text |-> <<>>],
     [exists |-> TRUE, fault |-> "undecodable", text |-> <<>>],
     [exists |-> TRUE, fault |-> "none", text |-> <<>>],
     [exists |-> TRUE, fault |-> "none",
      text |-> SubSeq(DumpStore(<<>>, <<>>, Skeleton(OpsNow - RecentAge).info), 1, 3)],
     [exists |-> TRUE, fault |-> "none", text |-> <<Brace("["), Brace("]")>>],
     [exists |-> TRUE, fault |-> "none",
      text |-> <<Brace("{"), [key |-> "channels", value |-> [j |-> "null"]], Brace("}")>>]}
    \cup
    {[exists |-> TRUE, fault |-> "none",
      text |-> DumpStore(chs, msgs, [Skeleton(OpsNow - RecentAge).info
                                        EXCEPT !.last_update = OpsNow - RecentAge])] :
        chs \in OpsChannels, msgs \in OpsMessageLists}

OpsLast(op, channel_id, arg, raised, ret) ==
    [op |-> op, channel |-> channel_id, arg |-> arg, raised |-> raised,
     before |-> messages, ret |-> ret]

Ready == run.pc = "ready"

(* SlackCacheManager(cache_file) *)
OpsLoad ==
    /\ run.pc = "idle"
    /\ Construct(LoadCache(disk, now))
    /\ run' = [RunIdle EXCEPT
                !.pc = IF LoadCache(disk, now).raised THEN "crashed" ELSE "ready"]
    /\ last' = OpsLast("load", "CA", 0, LoadCache(disk, now).raised, <<>>)
    /\ UNCHANGED <<now, disk>>

(* _get_cached_channel_messages(channel_id) *)
OpsRead(channel_id) ==
    /\ Ready
    /\ last' = OpsLast("read", channel_id, 0, GetRaises(messages),
                       IF GetRaises(messages) THEN <<>>
                       ELSE GetCachedChannelMessages(channel_id))
    /\ UNCHANGED <<channels, messages, now, run, disk, info>>

(* merge_with_existing_messages(new_messages) *)
OpsMerge(new_messages) ==
    /\ Ready
    /\ messages' = IF GetRaises(messages) THEN messages
                   ELSE MergeWithExistingMessages(messages, new_messages)
    /\ last' = OpsLast("merge", "CA", new_messages, GetRaises(messages), <<>>)
    /\ UNCHANGED <<channels, now, run, disk, info>>

(* remove_old_messages(older_than_days) *)
OpsPrune(older_than_days) ==
    /\ Ready
    /\ messages' = IF GetRaises(messages) THEN messages
                   ELSE RemoveOldMessages(messages, older_than_days, now)
    /\ last' = OpsLast("prune", "CA", older_than_days, GetRaises(messages), <<>>)
    /\ UNCHANGED <<channels, now, run, disk, info>>

(* update_channel_info(channel_id, channel_name, last_message_ts) *)
OpsUpsert(channel_id, last_message_ts) ==
    /\ Ready
    /\ channels' = UpdateChannelInfo(channels, channel_id, ChannelName(channel_id),
                                     last_message_ts, now)
    /\ last' = [OpsLast("upsert", channel_id, last_message_ts, FALSE, <<>>)
                    EXCEPT !.before = channels]
    /\ UNCHANGED <<messages, now, run, disk, info>>

(* _parse_message(msg_data, channel_id, channel_name) *)
OpsParse(msg_data, channel_id) ==
    /\ Ready
    /\ last' = OpsLast("parse", channel_id, msg_data, FALSE,
                       ParseMessage(msg_data, channel_id))
    /\ UNCHANGED <<channels, messages, now, run, disk, info>>

OpsInit ==
    /\ channels = <<>>
    /\ messages = <<>>
    /\ now = OpsNow
    /\ last = OpsLast("init", "CA", 0, FALSE, <<>>)
    /\ run = RunIdle
    /\ disk \in OpsFiles
    /\ info = Skeleton(OpsNow).info

NextOps ==
    \/ OpsLoad
    \/ \E c \in ChannelIds : OpsRead(c)
    \/ \E batch \in OpsBatches : OpsMerge(batch)
    \/ \E days \in PruneDays : OpsPrune(days)
    \/ \E ts \in {NoTs, OpsNow} : OpsUpsert("CA", ts)
    \/ \E r \in RawRecords : OpsParse(r, "CA")

SpecOps == OpsInit /\ [][NextOps]_vars

----------------------------------------------------------------------------
(* The syncs together with the maintenance operations of the store:        *)
(* remove_old_messages and clear_cache, from the empty cache.              *)

(* time.time() when the cache is pruned: after every message *)
PruneClock == TsBase + MaxTs + 1

(* A variant of clear_cache that forgets the channels and keeps the messages *)
ClearCache_ChannelsOnly(chs, msgs, t) == [Skeleton(t) EXCEPT !.messages = msgs]

(* clear_cache: cache_data is the skeleton again *)
ClearCache(chs, msgs, t) == Skeleton(t)

StoreLast(op, days) ==
    [op |-> op, channel |-> "CA", days |-> days,
     before |-> [channels |-> channels, messages |-> messages]]

(* remove_old_messages(older_than_days) *)
StorePrune(older_than_days) ==
    /\ now < MaxNow
    /\ now' = now + 1
    /\ messages' = RemoveOldMessages(messages, older_than_days, PruneClock)
    /\ last' = StoreLast("prune", older_than_days)
    /\ UNCHANGED <<channels, run, disk, info>>

(* clear_cache() *)
StoreClear ==
    /\ now < MaxNow
    /\ now' = now + 1
    /\ channels' = ClearCache(channels, messages, now').channels
    /\ messages' = ClearCache(channels, messages, now').messages
    /\ info' = ClearCache(channels, messages, now').info
    /\ disk' = NoFile
    /\ last' = StoreLast("clear", 0)
    /\ UNCHANGED run

NextStore ==
    \/ \E c \in ChannelIds, f \in BOOLEAN :
            SyncFetched(c, f) /\ UNCHANGED <<run, disk, info>>
    \/ \E c \in ChannelIds, f \in BOOLEAN :
            SyncApiError(c, f) /\ UNCHANGED <<run, disk, info>>
    \/ \E c \in ChannelIds, f \in BOOLEAN :
            SyncRaised(c, f) /\ UNCHANGED <<run, disk, info>>
    \/ \E days \in {0, DefaultDays} : StorePrune(days)
    \/ StoreClear

SpecStore == Init /\ [][NextStore]_vars

----------------------------------------------------------------------------
(* The export: generate_llm_context.  A text is the sequence of its        *)
(* characters; dicts are kept as sequences in the order of insertion.      *)

(* str.strip() *)
RECURSIVE StripLeft(_)
StripLeft(text) ==
    IF text # <<>> /\ Head(text) = " " THEN StripLeft(Tail(text)) ELSE text

RECURSIVE StripRight(_)
StripRight(text) ==
    IF text # <<>> /\ text[Len(text)] = " "
    THEN StripRight(SubSeq(text, 1, Len(text) - 1)) ELSE text

Strip(text) == StripRight(StripLeft(text))

(* A variant of the key that leaves the text out *)
UniqueKey_NoText(msg) == <<msg.id, <<>>, msg.timestamp, msg.channel_id>>

UniqueKey(msg) == <<msg.id, Strip(msg.text), msg.timestamp, msg.channel_id>>

(* Step 1: the first message of each key, in the order of the input *)
RECURSIVE UniqueMessages(_, _, _)
UniqueMessages(msgs, seen_messages, unique_messages) ==
    IF msgs = <<>> THEN unique_messages
    ELSE IF UniqueKey(Head(msgs)) \notin seen_messages
         THEN UniqueMessages(Tail(msgs), seen_messages \cup {UniqueKey(Head(msgs))},
                             Append(unique_messages, Head(msgs)))
         ELSE UniqueMessages(Tail(msgs), seen_messages, unique_messages)

(* "This is a thread reply" *)
IsThreadReply(msg) == msg.thread_ts # NoTs /\ msg.thread_ts # msg.timestamp

(* Where the dict of threads has the key thread_ts, 0 when it has not *)
ThreadIndex(threads, thread_ts) ==
    IF \E k \in 1..Len(threads) : threads[k].thread_ts = thread_ts
    THEN CHOOSE k \in 1..Len(threads) : threads[k].thread_ts = thread_ts
    ELSE 0

(* Where channel_groups has the key channel_key, 0 when it has not *)
GroupIndex(channel_groups, channel_key) ==
    IF \E k \in 1..Len(channel_groups) : channel_groups[k].channel = channel_key
    THEN CHOOSE k \in 1..Len(channel_groups) : channel_groups[k].channel = channel_key
    ELSE 0

(* channel_groups[channel_key]["threads"][msg.thread_ts].append(msg) *)
AddToThreads(threads, msg) ==
    LET k == ThreadIndex(threads, msg.thread_ts)
    IN IF k = 0 THEN Append(threads, [thread_ts |-> msg.thread_ts, messages |-> <<msg>>])
       ELSE [threads EXCEPT ![k].messages = Append(@, msg)]

ChannelKey(msg) == msg.channel_name

(* A variant that puts every message in the standalone list *)
PlaceInGroup_AllStandalone(group, msg) ==
    [group EXCEPT !.standalone = Append(@, msg)]

PlaceInGroup(group, msg) ==
    IF IsThreadReply(msg)
    THEN [group EXCEPT !.threads = AddToThreads(@, msg)]
    ELSE [group EXCEPT !.standalone = Append(@, msg)]

(* "Group messages by channel and thread" *)
RECURSIVE ChannelGroups(_, _)
ChannelGroups(msgs, channel_groups) ==
    IF msgs = <<>> THEN channel_groups
    ELSE LET msg == Head(msgs)
             k == GroupIndex(channel_groups, ChannelKey(msg))
             known == IF k # 0 THEN channel_groups
                      ELSE Append(channel_groups,
                                  [channel |-> ChannelKey(msg), standalone |-> <<>>,
                                   threads |-> <<>>])
             at == IF k # 0 THEN k ELSE Len(known)
         IN ChannelGroups(Tail(msgs), [known EXCEPT ![at] = PlaceInGroup(@, msg)])

(* sorted(..., key=lambda x: x.timestamp): stable, on the strings *)
RECURSIVE InsertByTimestamp(_, _)
InsertByTimestamp(sorted, msg) ==
    IF sorted = <<>> THEN <<msg>>
    ELSE IF StrGreater(Head(sorted).timestamp, msg.timestamp) THEN <<msg>> \o sorted
         ELSE <<Head(sorted)>> \o InsertByTimestamp(Tail(sorted), msg)

RECURSIVE SortedByTimestamp(_)
SortedByTimestamp(msgs) ==
    IF msgs = <<>> THEN <<>>
    ELSE InsertByTimestamp(SortedByTimestamp(SubSeq(msgs, 1, Len(msgs) - 1)),
                           msgs[Len(msgs)])

(* f"p{msg.timestamp.replace('.', '')}" *)
PTimestamp(timestamp) == <<"p">> \o Digits(timestamp)

MsgData(msg, minimal, standalone) ==
    IF ~minimal /\ standalone
    THEN [text |-> msg.text, timestamp |-> PTimestamp(msg.timestamp),
          has_thread |-> msg.is_thread_parent]
    ELSE [text |-> msg.text, timestamp |-> PTimestamp(msg.timestamp)]

(* A variant that emits every message of the list *)
RECURSIVE DistinctTexts_KeepAll(_, _, _, _)
DistinctTexts_KeepAll(sorted, texts, minimal, standalone) ==
    IF sorted = <<>> THEN <<>>
    ELSE <<MsgData(Head(sorted), minimal, standalone)>>
            \o DistinctTexts_KeepAll(Tail(sorted), texts, minimal, standalone)

(* The loop over a sorted list that emits the first message of each text *)
RECURSIVE DistinctTexts(_, _, _, _)
DistinctTexts(sorted, texts, minimal, standalone) ==
    IF sorted = <<>> THEN <<>>
    ELSE IF Strip(Head(sorted).text) \notin texts
         THEN <<MsgData(Head(sorted), minimal, standalone)>>
                \o DistinctTexts(Tail(sorted), texts \cup {Strip(Head(sorted).text)},
                                 minimal, standalone)
         ELSE DistinctTexts(Tail(sorted), texts, minimal, standalone)

ThreadContext(thread, minimal) ==
    LET emitted == DistinctTexts(SortedByTimestamp(thread.messages), {}, minimal, FALSE)
    IN IF minimal THEN [messages |-> emitted]
       ELSE [messages |-> emitted, thread_id |-> thread.thread_ts]

ChannelContext(group, minimal) ==
    [channel |-> group.channel,
     channel_id |-> IF group.standalone # <<>> THEN group.standalone[1].channel_id
                    ELSE IF group.threads # <<>> THEN group.threads[1].messages[1].channel_id
                    ELSE "None",
     standalone_messages |->
        DistinctTexts(SortedByTimestamp(group.standalone), {}, minimal, TRUE),
     threads |-> SelectSeq([k \in 1..Len(group.threads) |->
                                ThreadContext(group.threads[k], minimal)],
                           LAMBDA t : t.messages # <<>>)]

RECURSIVE SumSeq(_)
SumSeq(s) == IF s = <<>> THEN 0 ELSE Head(s) + SumSeq(Tail(s))

(* generate_llm_context(messages, query, minimal): the context before      *)
(* json.dumps, with the lists it was built from.                           *)
GenerateLlmContext(msgs, minimal) ==
    LET unique_messages == UniqueMessages(msgs, {}, <<>>)
        channel_groups == ChannelGroups(unique_messages, <<>>)
        conversations ==
            SelectSeq([k \in 1..Len(channel_groups) |->
                            ChannelContext(channel_groups[k], minimal)],
                      LAMBDA c : c.standalone_messages # <<>> \/ c.threads # <<>>)
    IN [unique_messages |-> unique_messages,
        channel_groups |-> channel_groups,
        channels_included |-> {m.channel_name : m \in Range(unique_messages)},
        conversations |-> conversations,
        total_messages |->
            SumSeq([k \in 1..Len(conversations) |->
                        Len(conversations[k].standalone_messages)
                        + SumSeq([j \in 1..Len(conversations[k].threads) |->
                                    Len(conversations[k].threads[j].messages)])])]

(* The messages the export is given: two channels that may carry the same  *)
(* channel_name, texts that differ in white space only, threads.           *)
ExportTexts == {<<"h">>, <<" ", "h">>, <<"b">>}

ExportChannels ==
    {[id |-> "CA", name |-> "general"], [id |-> "CB", name |-> "general"],
     [id |-> "CB", name |-> "random"]}

ExportEntries ==
    {[id |-> ts, channel_id |-> c.id, channel_name |-> c.name, timestamp |-> ts,
      text |-> text, subtype |-> NoSubtype, thread_ts |-> thread_ts,
      is_thread_parent |-> (thread_ts = ts), reply_count |-> IF thread_ts = ts THEN 1 ELSE 0] :
        ts \in Timestamps, c \in ExportChannels, text \in ExportTexts,
        thread_ts \in {NoTs, TsBase, TsBase + 1}}

ExportLists == UNION {[1..n -> ExportEntries] : n \in 0..MaxExportList}

ExportBatches ==
    {<<e>> : e \in {x \in ExportEntries :
                        /\ x.channel_id = "CA" /\ x.thread_ts = NoTs
                        /\ \/ x.timestamp = TsBase + 1 /\ x.text # <<"b">>
                           \/ x.timestamp = TsBase + 2 /\ x.text = <<"b">>}}

ExportLast(op, merged, minimal, context) ==
    [op |-> op, merged |-> merged, minimal |-> minimal, input |-> messages,
     context |-> context]

(* "Reloading all messages from updated cache": every cached dict as a Message *)
GetCachedChannelMessagesAll == [k \in 1..Len(messages) |-> ToMessage(messages[k])]

NoContext == GenerateLlmContext(<<>>, TRUE)

(* merge_with_existing_messages(new_messages) before an export *)
ExportMerge(new_messages) ==
    /\ Len(last.merged) < MaxMerges
    /\ messages' = MergeWithExistingMessages(messages, new_messages)
    /\ last' = ExportLast("merge", Append(last.merged, new_messages), TRUE, NoContext)
    /\ UNCHANGED <<channels, now, run, disk, info>>

(* generate_llm_context on the cached messages *)
ExportContext(minimal) ==
    /\ last' = ExportLast("export", last.merged, minimal,
                          GenerateLlmContext(GetCachedChannelMessagesAll, minimal))
    /\ UNCHANGED <<channels, messages, now, run, disk, info>>

ExportInit ==
    /\ channels = <<>>
    /\ messages \in ExportLists
    /\ now = 0
    /\ last = ExportLast("init", <<>>, TRUE, NoContext)
    /\ run = RunIdle
    /\ disk = NoFile
    /\ info = Skeleton(0).info

NextExport ==
    \/ \E batch \in ExportBatches : ExportMerge(batch)
    \/ \E minimal \in BOOLEAN : ExportContext(minimal)

SpecExport == ExportInit /\ [][NextExport]_vars

----------------------------------------------------------------------------
(* Vocabulary of the properties *)

WatermarkOf(chs, channel_id) ==
    IF channel_id \in DOMAIN chs THEN chs[channel_id].last_message_ts ELSE NoTs

CachedSet(msgs, channel_id) ==
    {msgs[i] : i \in {j \in 1..Len(msgs) : msgs[j].channel_id = channel_id}}

MaxTimestamp(S) ==
    IF S = {} THEN NoTs ELSE CHOOSE t \in S : \A u \in S : t >= u

TimestampsOf(S) == {m.timestamp : m \in S}

OnePerId(s) == \A i, j \in 1..Len(s) : i # j => s[i].id # s[j].id

SyncDone == last.op = "sync"

----------------------------------------------------------------------------
(* C1: the cached message list never holds two entries with the same id.   *)
C1_NoDuplicateIds == OnePerId(messages)

(* C2: every channel's watermark is the largest timestamp among the        *)
(* messages cached for the channel (no watermark when none is cached).     *)
C2_WatermarkIsMaxCached ==
    \A c \in DOMAIN channels :
        channels[c].last_message_ts = MaxTimestamp(TimestampsOf(CachedSet(messages, c)))

(* C3 as stated: a successful sync, incremental or full, that yields new   *)
(* messages never lowers the channel's watermark.                          *)
C3_MonotonicWatermark ==
    [][(last'.op = "sync" /\ last'.ok /\ last'.new_messages # <<>>)
        => WatermarkOf(channels', last'.channel) >= WatermarkOf(channels, last'.channel)]_vars

(* C3 amended: a successful sync of a channel that is not forced, has      *)
(* cached messages and a watermark (an incremental sync) and yields new    *)
(* messages never lowers the watermark.                                    *)
C3_IncrementalMonotonic ==
    [][(/\ last'.op = "sync" /\ last'.ok /\ last'.new_messages # <<>>
        /\ ~last'.force
        /\ CachedSet(messages, last'.channel) # {}
        /\ WatermarkOf(channels, last'.channel) # NoTs)
        => WatermarkOf(channels', last'.channel) >= WatermarkOf(channels, last'.channel)]_vars

(* An incremental sync found new messages and moved the watermark up. *)
C3_Witness ==
    /\ SyncDone /\ last.ok /\ last.branch = "append"
    /\ WatermarkOf(channels, last.channel) > last.oldest

(* C4: an incremental sync that found new messages leaves, for the         *)
(* channel, exactly the previously cached messages plus every fetched one, *)
(* one entry per id.                                                       *)
C4_AppendExact ==
    [][(last'.op = "sync" /\ last'.branch = "append")
        => /\ CachedSet(messages', last'.channel) =
                CachedSet(messages, last'.channel) \cup Range(last'.new_messages)
           /\ OnePerId(GetCachedMessages(messages', last'.channel))]_vars

(* C5: a full sync leaves, for the channel, exactly the fetched set, and   *)
(* the watermark is the largest fetched timestamp.                         *)
C5_ReplaceExact ==
    (SyncDone /\ last.branch = "replace")
        => /\ CachedSet(messages, last.channel) = Range(last.new_messages)
           /\ WatermarkOf(channels, last.channel) =
                MaxTimestamp(TimestampsOf(Range(last.new_messages)))

(* C6: an incremental sync for which the remote has nothing new leaves the *)
(* message list and the watermark as they were, sets last_fetch to the     *)
(* current time and returns the channel's cached messages.                 *)
C6_RetainFrame ==
    [][(last'.op = "sync" /\ last'.ok /\ last'.oldest # NoTs /\ last'.new_messages = <<>>)
        => /\ messages' = messages
           /\ WatermarkOf(channels', last'.channel) = WatermarkOf(channels, last'.channel)
           /\ channels'[last'.channel].last_fetch = now'
           /\ channels'[last'.channel].last_fetch > channels[last'.channel].last_fetch
           /\ last'.ret = GetCachedChannelMessages(last'.channel)]_vars

C6_Witness ==
    /\ SyncDone /\ last.ok /\ last.oldest # NoTs /\ last.new_messages = <<>>
    /\ last.ret # <<>>
    /\ channels[last.channel].last_fetch = now

(* C7 as stated: the history fetch gets the watermark as its lower bound   *)
(* exactly when the channel has a watermark and no refresh is forced.      *)
C7_ModeByWatermark ==
    [][last'.op = "sync"
        => /\ (last'.oldest # NoTs) =
                (WatermarkOf(channels, last'.channel) # NoTs /\ ~last'.force)
           /\ last'.oldest # NoTs => last'.oldest = WatermarkOf(channels, last'.channel)]_vars

(* C7 amended: the history fetch gets the watermark as its lower bound     *)
(* exactly when no refresh is forced, the channel has at least one cached  *)
(* message and it has a watermark; otherwise the fetch is full.            *)
C7_ModeByWatermarkAndCache ==
    [][last'.op = "sync"
        => /\ (last'.oldest # NoTs) =
                (/\ ~last'.force
                 /\ CachedSet(messages, last'.channel) # {}
                 /\ WatermarkOf(channels, last'.channel) # NoTs)
           /\ last'.oldest # NoTs => last'.oldest = WatermarkOf(channels, last'.channel)
           /\ (last'.ok /\ last'.oldest = NoTs) => last'.branch = "replace"]_vars

(* An unforced sync of a channel with a watermark and nothing cached ran   *)
(* as a full fetch (it fetched nothing, so the watermark is the old one).  *)
C7_Witness ==
    /\ SyncDone /\ last.ok /\ ~last.force /\ last.oldest = NoTs
    /\ last.new_messages = <<>>
    /\ WatermarkOf(channels, last.channel) # NoTs

(* C8: after an append or a replace the watermark is the largest timestamp *)
(* among all the messages fetched by the sync, thread replies included.    *)
C8_WatermarkIsMaxFetched ==
    (SyncDone /\ last.branch \in {"append", "replace"} /\ last.new_messages # <<>>)
        => WatermarkOf(channels, last.channel) =
                MaxTimestamp(TimestampsOf(Range(last.new_messages)))

(* C9: a sync one of whose remote calls failed (history or thread replies) *)
(* changes neither the channel's watermark nor its cached messages.        *)
C9_FailureChangesNothing ==
    [][(last'.op = "sync" /\ (~last'.ok \/ last'.replies_failed))
        => /\ WatermarkOf(channels', last'.channel) = WatermarkOf(channels, last'.channel)
           /\ GetCachedMessages(messages', last'.channel) =
                GetCachedMessages(messages, last'.channel)]_vars

(* C10: a sync whose history fetch failed returns exactly the messages     *)
(* cached for the channel, forced refresh or not.                          *)
C10_ErrorReturnsCache ==
    (SyncDone /\ last.branch = "error") => last.ret = GetCachedChannelMessages(last.channel)

----------------------------------------------------------------------------
(* Vocabulary of the properties of the run *)

ErrorSignals == {"ratelimited", "api_error", "raised"}

(* The while loop of the current channel is over *)
ChannelTried == run.pc = "finish"

(* C11: a channel whose sync hit a remote error is not recorded as a       *)
(* success by the run loop: when its while loop is over, success is false  *)
(* (so the cached-messages fallback is what the loop takes next).          *)
C11_ErrorIsFailure ==
    (ChannelTried /\ run.signal \in ErrorSignals) => ~run.success

(* C12: when every history attempt of a channel is answered by a           *)
(* rate-limit error without retry-after, the channel gets the first        *)
(* attempt and max_retries more, the loop blocks for twice and four times  *)
(* base_delay in between, and the channel ends as a failure.               *)
C12_RateLimitExhaustion ==
    (ChannelTried /\ run.signal = "ratelimited" /\ run.retry_after = NoRetryAfter)
        => /\ run.attempts = 1 + max_retries
           /\ run.waited = <<2 * base_delay, 4 * base_delay>>
           /\ ~run.success

(* The messages the run took for the channel it has just tried *)
LastHandled == run.handled[Len(run.handled)]

(* C13: a channel whose history call was answered by an API error other    *)
(* than a rate limit is not retried: when its while loop is over it has    *)
(* had exactly one history attempt and no backoff wait, current_delay is   *)
(* what it was before the attempt, and the messages taken for the channel  *)
(* are its cached messages.                                                *)
C13_ApiErrorNotRetried ==
    (ChannelTried /\ run.signal = "api_error")
        => /\ run.attempts = 1
           /\ run.waited = <<>>
           /\ run.current_delay = run.delay_in
           /\ run.handled # <<>>
           /\ LastHandled.channel = CurrentChannel
           /\ LastHandled.messages = GetCachedChannelMessages(CurrentChannel)
           /\ Len(run.all_messages) >= Len(LastHandled.messages)
           /\ SubSeq(run.all_messages,
                     Len(run.all_messages) - Len(LastHandled.messages) + 1,
                     Len(run.all_messages)) = GetCachedChannelMessages(CurrentChannel)

(* An API error hit a channel that has cached messages, as the second      *)
(* channel of its run.                                                     *)
C13_Witness ==
    /\ ChannelTried /\ run.signal = "api_error"
    /\ run.i = 2
    /\ GetCachedChannelMessages(CurrentChannel) # <<>>

(* C14: after an attempt answered by a rate-limit error the loop has       *)
(* blocked for the larger of twice the suggested retry-after and twice     *)
(* current_delay as it was before the attempt, the suggested retry-after   *)
(* being that current_delay when the header is absent or not a number.     *)
C14_RateLimitWait ==
    run.signal = "ratelimited"
        => /\ run.waited # <<>>
           /\ run.waited[Len(run.waited)] =
                Max(2 * SuggestedRetryAfter(run.retry_after, run.delay_in),
                    2 * run.delay_in)

(* C15: current_delay stays between base_delay and max_delay, and an       *)
(* attempt answered by a rate-limit error leaves it at the smaller of      *)
(* twice its former value and max_delay.                                   *)
C15_DelayDoublesWithinBounds ==
    /\ run.current_delay >= base_delay
    /\ run.current_delay <= max_delay
    /\ (ChannelTried /\ run.signal = "ratelimited")
            => run.current_delay = Min(2 * run.delay_in, max_delay)

(* The run is at a channel that comes after one that was rate-limited *)
AfterRateLimit ==
    /\ run.pc \in {"attempt", "finish"}
    /\ run.limited_at # 0
    /\ run.i > run.limited_at

C17_PauseBetweenChannels ==
    /\ (Attempting /\ run.i > 1)
            => run.paused = Max(run.current_delay, InterChannelMinDelay)
    /\ (Attempting /\ run.i = 1) => run.paused = 0
    /\ run.pc = "done" => run.paused = 0

(* The second channel of a run starts after the first one ended by an      *)
(* unexpected error and took its cached messages.                          *)
C17_Witness ==
    /\ Attempting /\ run.i = 2
    /\ run.handled # <<>> /\ LastHandled.source = "fallback"
    /\ run.paused = InterChannelMinDelay

RECURSIVE Flatten(_)
Flatten(hs) == IF hs = <<>> THEN <<>> ELSE Head(hs).messages \o Flatten(Tail(hs))

(* C18: a regular run is never aborted: its channels are taken one by one  *)
(* in list order, and when the loop is over every channel of the list has  *)
(* been taken exactly once and the corpus is, channel after channel, what  *)
(* the sync of the channel returned or the channel's cached messages.      *)
C18_EveryChannelOnceInOrder ==
    /\ run.pc = "crashed" => run.cache_only
    /\ run.pc \in {"attempt", "finish", "done"}
            => /\ Len(run.handled) <= Len(run.channels_to_process)
               /\ \A k \in 1..Len(run.handled) :
                    run.handled[k].channel = run.channels_to_process[k]
    /\ Attempting => Len(run.handled) = run.i - 1
    /\ run.pc = "done"
            => /\ Len(run.handled) = Len(run.channels_to_process)
               /\ run.all_messages = Flatten(run.handled)
               /\ \A k \in 1..Len(run.handled) :
                    \/ run.handled[k].source = "returned"
                    \/ run.handled[k].messages =
                            GetCachedChannelMessages(run.handled[k].channel)

(* A run of two channels is over: the first ended by an unexpected error   *)
(* and took the fallback, the second was fetched after it.                 *)
C18_Witness ==
    /\ run.pc = "done" /\ Len(run.channels_to_process) = 2
    /\ run.handled[1].source = "fallback"
    /\ run.handled[2].source = "returned" /\ run.handled[2].messages # <<>>
    /\ run.all_messages = run.handled[2].messages

(* C19: a pass of the loop for a channel fetched less than ten minutes ago *)
(* makes no remote call, adds the channel's cached messages to the corpus, *)
(* leaves the cache (messages, watermark, last_fetch) as it is and counts  *)
(* as the channel's success.                                               *)
C19_RecentCacheHit ==
    [][(/\ Attempting
        /\ GetChannelLastFetch(CurrentChannel) # NoTs
        /\ (now - GetChannelLastFetch(CurrentChannel)) * TickMinutes < RecentMinutes)
        => /\ UNCHANGED <<channels, messages, last>>
           /\ run'.history_calls = run.history_calls
           /\ run'.all_messages = run.all_messages \o GetCachedChannelMessages(CurrentChannel)
           /\ run'.success
           /\ run'.pc = "finish"]_vars

(* A channel with cached messages was taken from its recent cache *)
C19_Witness ==
    /\ ChannelTried /\ run.signal = "recent" /\ run.success
    /\ run.handled # <<>> /\ LastHandled.messages # <<>>
    /\ run.history_calls = 0

(* C20: a run started with CACHE_ONLY=true makes no remote call and ends   *)
(* normally, its corpus being the cached messages.                         *)
C20_CacheOnlyCompletes ==
    run.cache_only
        => /\ run.pc = "done"
           /\ run.history_calls = 0
           /\ run.all_messages = [k \in 1..Len(messages) |-> ToMessage(messages[k])]

----------------------------------------------------------------------------
(* Vocabulary of the properties of persistence *)

(* What a new process would find in the file *)
OnFile == LoadCache(disk, now).store

KilledIn(pcs) == run.pc = "killed" /\ run.killed_in \in pcs

(* C21: when the process is killed while it works on a channel, the file   *)
(* already holds, for every channel that came before it in the run, the    *)
(* channel entry and the cached messages the process held for it.          *)
C21_PersistedAfterEachChannel ==
    KilledIn({"attempt", "finish"})
        => \A k \in 1..(run.i - 1) :
             LET c == run.channels_to_process[k]
             IN c \in DOMAIN channels
                  => /\ c \in DOMAIN OnFile.channels
                     /\ OnFile.channels[c] = channels[c]
                     /\ GetCachedMessages(OnFile.messages, c) =
                            GetCachedMessages(messages, c)

(* C22: when the process is killed during save_cache, the file is absent   *)
(* or holds a complete text, never a truncated one.                        *)
C22_SaveAtomic ==
    KilledIn({"save", "writing"}) => (~disk.exists \/ IsJsonObject(disk.text))

(* C23: the process that starts after a run has saved its cache loads      *)
(* channels, messages, metadata and last_update equal to those saved.      *)
C23_RoundTrip ==
    [][(run.pc = "done" /\ run'.pc # "done")
        => /\ channels' = channels
           /\ messages' = messages
           /\ info' = info]_vars

(* A process has loaded a file that holds messages, one of them without    *)
(* thread_ts, and that was saved after the store was created.              *)
C23_Witness ==
    /\ Attempting /\ run.i = 1 /\ run.history_calls = 0
    /\ disk.exists
    /\ \E k \in 1..Len(messages) : messages[k].thread_ts = NoTs
    /\ info.last_update # NoTs
    /\ info.created < info.last_update
    /\ info.created < now

----------------------------------------------------------------------------
(* Vocabulary of the store operations *)

After(op) == last.op = op

(* The file is missing, cannot be read, or does not hold a cache object *)
Unusable(d) ==
    \/ ~d.exists
    \/ d.fault # "none"
    \/ ~IsJsonObject(d.text)
    \/ \E k \in 1..Len(d.text) :
         d.text[k].key \in {"channels", "messages"} /\ d.text[k].value.j = "null"

InMemory == [channels |-> channels, messages |-> messages, info |-> info]

(* C24: loading a missing, unreadable or malformed cache file raises      *)
(* nothing to the caller and leaves the store at the empty skeleton.      *)
C24_LoadFailsSoft ==
    (After("load") /\ Unusable(disk))
        => /\ ~last.raised
           /\ InMemory = Skeleton(now)

(* C25: a cached record that cannot be turned back into a Message is      *)
(* skipped: the read of a channel raises nothing and returns every other  *)
(* record of that channel, in order.                                       *)
C25_BadRecordSkipped ==
    After("read")
        => /\ ~last.raised
           /\ LET good == SelectSeq(messages,
                              LAMBDA m : IsDict(m) /\ m.channel_id = last.channel)
              IN last.ret = [k \in 1..Len(good) |-> ToMessage(good[k])]

(* C26: merging is idempotent: after a batch was merged into the cached   *)
(* list, merging the same batch again leaves the list as it is.            *)
C26_MergeIdempotent ==
    After("merge")
        => IF last.raised THEN messages = last.before
           ELSE MergeWithExistingMessages(messages, last.arg) = messages

C26_Witness ==
    /\ After("merge")
    /\ ~last.raised
    /\ Len(messages) > Len(last.before)
    /\ \E k \in 1..Len(last.arg) : last.arg[k].id \in {m.id : m \in Range(last.before)}
    /\ \E k \in 1..Len(last.arg) : last.arg[k].id \notin {m.id : m \in Range(last.before)}

(* C27: with timestamps that are not later than now, pruning with zero    *)
(* days empties the cached list and pruning with a very large number of   *)
(* days leaves it unchanged.                                               *)
C27_PruneBoundaries ==
    (After("prune") /\ ~last.raised)
        => /\ last.arg = 0 => messages = <<>>
           /\ last.arg \in {LargeDays, HugeDays} => messages = last.before

(* C28: pruning removes exactly the messages whose timestamp, read as a   *)
(* number, is below now minus the given days, whatever the number of      *)
(* digits of the timestamps.                                               *)
C28_PruneNumeric ==
    (After("prune") /\ ~last.raised)
        => messages = SelectSeq(last.before,
                         LAMBDA msg : msg.timestamp >= now - last.arg * DaySeconds)

(* C29: update_channel_info on a known channel sets last_fetch to the     *)
(* current time and changes last_message_ts only when a value is          *)
(* supplied; on an unknown channel it creates the entry with the supplied *)
(* last_message_ts; no other channel changes.                              *)
C29_Upsert ==
    After("upsert")
        => LET c == last.channel
               old == last.before
           IN /\ DOMAIN channels = DOMAIN old \cup {c}
              /\ channels[c].last_fetch = now
              /\ channels[c].last_message_ts =
                    IF c \in DOMAIN old /\ last.arg = NoTs
                    THEN old[c].last_message_ts ELSE last.arg
              /\ \A d \in DOMAIN old \ {c} : channels[d] = old[d]

C29_Witness ==
    /\ After("upsert")
    /\ last.channel \in DOMAIN last.before
    /\ last.arg = NoTs
    /\ last.before[last.channel].last_message_ts # NoTs
    /\ last.before[last.channel].last_fetch # now

Parsed == After("parse") /\ last.ret # <<>>

(* C30 as stated: a parsed record is a thread parent when its thread_ts   *)
(* equals its own ts or when it has replies and no thread_ts, and is not  *)
(* a thread parent whenever its thread_ts is present and differs from its *)
(* own ts.                                                                 *)
C30_ThreadClassification ==
    Parsed
        => LET r == last.arg
               m == last.ret[1]
           IN /\ r.thread_ts = r.ts => m.is_thread_parent
              /\ (r.thread_ts = NoTs /\ r.reply_count > 0) => m.is_thread_parent
              /\ (r.thread_ts # NoTs /\ r.thread_ts # r.ts) => ~m.is_thread_parent

(* C30 amended: a parsed record is a thread parent exactly when its       *)
(* thread_ts equals its own ts or its reply_count is above zero; a record *)
(* whose thread_ts is present and differs from its own ts is not a thread *)
(* parent only when its reply_count is zero.                               *)
C30_ThreadClassificationByReplies ==
    Parsed
        => LET r == last.arg
               m == last.ret[1]
           IN /\ r.thread_ts = r.ts => m.is_thread_parent
              /\ r.reply_count > 0 => m.is_thread_parent
              /\ (r.thread_ts # r.ts /\ r.reply_count = 0) => ~m.is_thread_parent

C30_Witness ==
    /\ Parsed
    /\ last.arg.thread_ts \notin {NoTs, last.arg.ts}
    /\ last.arg.reply_count > 0
    /\ last.ret[1].is_thread_parent

----------------------------------------------------------------------------
Administrative(m) == m.subtype \in SkippedSubtypes

(* C32: no record whose subtype is channel_join, channel_leave or          *)
(* channel_archive is in the cache or in what a sync returns, whether the  *)
(* remote sent it in the history page or in a thread's replies.            *)
C32_NoAdministrativeRecords ==
    /\ \A k \in 1..Len(messages) : ~Administrative(messages[k])
    /\ SyncDone => \A k \in 1..Len(last.ret) : ~Administrative(last.ret[k])

C32_Witness ==
    /\ SyncDone
    /\ last.skipped_in_replies
    /\ last.ret # <<>>
    /\ messages # <<>>

----------------------------------------------------------------------------
(* Vocabulary of the export *)

Exported == last.op = "export"

TrimmedKey(m) == <<m.id, Strip(m.text), m.timestamp, m.channel_id>>

(* The elements of s at the indices in idx, in the order of s *)
RECURSIVE Restrict(_, _, _)
Restrict(s, idx, k) ==
    IF k > Len(s) THEN <<>>
    ELSE (IF k \in idx THEN <<s[k]>> ELSE <<>>) \o Restrict(s, idx, k + 1)

FirstOfEachKey(s) ==
    Restrict(s, {k \in 1..Len(s) : \A j \in 1..(k - 1) : TrimmedKey(s[j]) # TrimmedKey(s[k])}, 1)

(* Every entry the context emits, with the list it is in *)
Emitted ==
    UNION {{[channel |-> k, thread |-> 0, entry |-> e] :
                e \in Range(last.context.conversations[k].standalone_messages)}
           \cup UNION {{[channel |-> k, thread |-> j, entry |-> e] :
                            e \in Range(last.context.conversations[k].threads[j].messages)} :
                       j \in 1..Len(last.context.conversations[k].threads)} :
           k \in 1..Len(last.context.conversations)}

(* C33: the export keeps, of the messages that share id, trimmed text,     *)
(* timestamp and channel_id, the first one only, and every entry it emits  *)
(* comes from a kept message; records of one key merged by two merge calls *)
(* are exported once.                                                      *)
C33_ExportDedup ==
    Exported
        => LET given == [k \in 1..Len(last.input) |-> ToMessage(last.input[k])]
               kept == last.context.unique_messages
           IN /\ kept = FirstOfEachKey(given)
              /\ \A i \in 1..Len(kept) : \A j \in 1..Len(kept) :
                    TrimmedKey(kept[i]) = TrimmedKey(kept[j]) => i = j
              /\ \A x \in Emitted : \E m \in Range(kept) :
                    /\ x.entry.text = m.text
                    /\ x.entry.timestamp = PTimestamp(m.timestamp)
              /\ last.context.total_messages <= Len(kept)

C33_Witness ==
    /\ Exported
    /\ Len(last.merged) = 2
    /\ last.merged[1] # last.merged[2]
    /\ TrimmedKey(last.merged[1][1]) = TrimmedKey(last.merged[2][1])
    /\ Cardinality({k \in 1..Len(last.context.unique_messages) :
            TrimmedKey(last.context.unique_messages[k]) = TrimmedKey(last.merged[1][1])}) = 1
    /\ Len(last.context.unique_messages) < Len(last.input)

(* The lists of the groups, next to the lists emitted for them *)
GroupLists ==
    UNION {{[from |-> last.context.channel_groups[k].standalone,
             emitted |-> last.context.conversations[k].standalone_messages]}
           \cup {[from |-> last.context.channel_groups[k].threads[j].messages,
                  emitted |-> last.context.conversations[k].threads[j].messages] :
                    j \in 1..Len(last.context.channel_groups[k].threads)} :
           k \in 1..Len(last.context.channel_groups)}

EntryDigits(e) == Tail(e.timestamp)

(* C34: in each standalone list and in each thread list of the export no   *)
(* two entries have the same trimmed text, every trimmed text of the       *)
(* group's list is emitted, and the entry emitted for a text carries the   *)
(* smallest timestamp of the messages with that text.                      *)
C34_GroupDedup ==
    Exported
        => /\ Len(last.context.conversations) = Len(last.context.channel_groups)
           /\ \A k \in 1..Len(last.context.channel_groups) :
                Len(last.context.conversations[k].threads)
                    = Len(last.context.channel_groups[k].threads)
           /\ \A l \in GroupLists :
                /\ \A i \in 1..Len(l.emitted) : \A j \in 1..Len(l.emitted) :
                      Strip(l.emitted[i].text) = Strip(l.emitted[j].text) => i = j
                /\ \A m \in Range(l.from) : \E e \in Range(l.emitted) :
                      /\ Strip(e.text) = Strip(m.text)
                      /\ ~LexGreater(EntryDigits(e), Digits(m.timestamp))
                /\ \A e \in Range(l.emitted) : \E m \in Range(l.from) :
                      e.text = m.text /\ EntryDigits(e) = Digits(m.timestamp)

C34_Witness ==
    /\ Exported
    /\ \E l \in GroupLists :
         /\ Len(l.from) = 2
         /\ Len(l.emitted) = 1
         /\ StrGreater(l.from[1].timestamp, l.from[2].timestamp)
         /\ l.from[1].thread_ts = TsBase

(* C35: the lists of the export are per channel: no standalone list and   *)
(* no thread list holds messages of two different channel_id, so two       *)
(* messages of different channels with the same trimmed text are both      *)
(* emitted.                                                                *)
C35_GroupsPerChannel ==
    Exported
        => /\ \A k \in 1..Len(last.context.channel_groups) :
                LET g == last.context.channel_groups[k]
                    members == Range(g.standalone)
                                 \cup UNION {Range(g.threads[j].messages) :
                                                j \in 1..Len(g.threads)}
                IN \A m \in members : \A n \in members : m.channel_id = n.channel_id
           /\ \A m \in Range(last.context.unique_messages) :
              \A n \in Range(last.context.unique_messages) :
                (m.channel_id # n.channel_id /\ Strip(m.text) = Strip(n.text))
                    => Cardinality({x \in Emitted :
                                      Strip(x.entry.text) = Strip(m.text)}) >= 2

Ascending(emitted) ==
    \A i \in 1..Len(emitted) : \A j \in i..Len(emitted) :
        ~LexGreater(EntryDigits(emitted[i]), EntryDigits(emitted[j]))

Occurrences(s, m) == Cardinality({i \in 1..Len(s) : s[i] = m})

(* C36: of the messages kept for the export, one without thread_ts or with *)
(* thread_ts equal to its own timestamp is in the standalone list of its   *)
(* group, once, and in no thread; one whose thread_ts differs from its     *)
(* timestamp is in the thread of its group keyed by that thread_ts, once,  *)
(* and in no other list; every emitted list is in ascending order of       *)
(* timestamp.                                                              *)
C36_GroupingPartitions ==
    Exported
        => LET groups == last.context.channel_groups
           IN /\ \A k \in 1..Len(groups) : \A j \in 1..Len(groups) :
                    groups[k].channel = groups[j].channel => k = j
              /\ \A k \in 1..Len(groups) :
                 \A i \in 1..Len(groups[k].threads) : \A j \in 1..Len(groups[k].threads) :
                    groups[k].threads[i].thread_ts = groups[k].threads[j].thread_ts => i = j
              /\ \A m \in Range(last.context.unique_messages) :
                 \A k \in 1..Len(groups) :
                    /\ Occurrences(groups[k].standalone, m) =
                          IF /\ groups[k].channel = m.channel_name
                             /\ m.thread_ts \in {NoTs, m.timestamp}
                          THEN 1 ELSE 0
                    /\ \A j \in 1..Len(groups[k].threads) :
                          Occurrences(groups[k].threads[j].messages, m) =
                             IF /\ groups[k].channel = m.channel_name
                                /\ m.thread_ts \notin {NoTs, m.timestamp}
                                /\ groups[k].threads[j].thread_ts = m.thread_ts
                             THEN 1 ELSE 0
              /\ \A m \in Range(last.context.unique_messages) :
                    \E k \in 1..Len(groups) :
                        /\ groups[k].channel = m.channel_name
                        /\ m.thread_ts \notin {NoTs, m.timestamp}
                              => \E j \in 1..Len(groups[k].threads) :
                                    groups[k].threads[j].thread_ts = m.thread_ts
              /\ \A l \in GroupLists : Ascending(l.emitted)

C36_Witness ==
    /\ Exported
    /\ \E k \in 1..Len(last.context.channel_groups) :
         LET g == last.context.channel_groups[k]
         IN /\ \E m \in Range(g.standalone) : m.thread_ts = m.timestamp
            /\ \E j \in 1..Len(g.threads) :
                 /\ g.threads[j].thread_ts = g.standalone[1].timestamp
                 /\ last.context.conversations[k].threads[j].messages # <<>>
            /\ last.input[1].thread_ts \notin {NoTs, last.input[1].timestamp}

----------------------------------------------------------------------------
OtherChannels(msgs, channel_id) == SelectSeq(msgs, LAMBDA m : m.channel_id # channel_id)

(* C38: a sync of a channel, whatever its mode and whatever the remote     *)
(* answers, leaves the cached messages of every other channel and the      *)
(* channels entry of every other channel as they were.                     *)
C38_ChannelIsolation ==
    [][last'.op = "sync"
        => /\ OtherChannels(messages', last'.channel) = OtherChannels(messages, last'.channel)
           /\ DOMAIN channels' \subseteq DOMAIN channels \cup {last'.channel}
           /\ \A d \in DOMAIN channels \ {last'.channel} :
                d \in DOMAIN channels' /\ channels'[d] = channels[d]]_vars

C38_Witness ==
    /\ SyncDone
    /\ last.branch = "replace"
    /\ last.new_messages # <<>>
    /\ OtherChannels(messages, last.channel) # <<>>
    /\ DOMAIN channels = ChannelIds
    /\ channels[last.channel].last_fetch = now
    /\ \E d \in ChannelIds : channels[d].last_fetch < now - 1

(* C39: what is cached for another channel never decides what an          *)
(* incremental sync stores for its own channel: the messages cached for   *)
(* the channel after the sync are those the same sync, with the same      *)
(* remote answer, leaves from a cache that agrees on this channel and      *)
(* holds nothing of the other channels.                                    *)
C39_ChannelIndependence ==
    [][(last'.op = "sync" /\ last'.branch = "append")
        => GetCachedMessages(messages', last'.channel)
             = GetCachedMessages(
                   MergeWithExistingMessages(GetCachedMessages(messages, last'.channel),
                                             last'.new_messages),
                   last'.channel)]_vars

----------------------------------------------------------------------------
(* C40: the run ends whatever the remote does: the retry loop of a channel *)
(* makes no more than max_retries + 1 = 3 history fetches (it never makes  *)
(* a second one), and a run that entered the loop over its channels goes   *)
(* on to the final save of the cache.                                      *)
C40_RunTerminates ==
    /\ [](max_retries + 1 = 3 /\ run.attempts <= 1 /\ run.attempts <= max_retries + 1)
    /\ (run.pc \in {"attempt", "finish"}) ~> (run.pc = "done")

C40_Witness ==
    /\ run.pc = "done"
    /\ Len(run.channels_to_process) = 2
    /\ disk.exists /\ IsJsonObject(disk.text)
    /\ \E k \in 1..Len(run.handled) : run.handled[k].source = "fallback"
    /\ \E k \in 1..Len(run.handled) : run.handled[k].source = "returned"

====
